---- MODULE Spec2Model ----
(***************************************************************************)
(* Model of src/src/server.py: the asyncio job server (ClusterServer), its *)
(* engine driver (EngineJobRunner) and the parts of JobRecord / JobStore   *)
(* they use.                                                               *)
(*                                                                         *)
(* Scheduling.  asyncio runs one task at a time and a task keeps the CPU   *)
(* until it reaches an await that really suspends.  `running` is the task  *)
(* that has the CPU (Idle: the event loop is choosing).  A step of a task  *)
(* that is in the middle of a segment requires running = that task; a step *)
(* that resumes a suspended task, or delivers an event from the outside    *)
(* (a client frame, an engine line), requires running = Idle.              *)
(* `async with self._lock` on a free asyncio.Lock does not suspend.        *)
(***************************************************************************)
EXTENDS Integers, Sequences, FiniteSets, TLC

\* ---- bounds of the model ------------------------------------------------
NumJobs == 2
NumClients == 1
MaxSlots == 1
MaxClock == 1
MaxInfo == 1
MaxEvents == 4
MaxStops == 2

\* ---- program constants --------------------------------------------------
JOB_PENDING == 0
JOB_QUEUED == 1
JOB_RUNNING == 2
JOB_FINISHED == 3
JOB_ERROR == 4
JOB_CANCELLED == 5
JOB_STOPPED == 6
SERVER_ONLINE == 1
SERVER_DEGRADED == 2
DEFAULT_LOG_TAIL == 2000
MAX_LOG_TAIL == 20000
LOG_MAXLEN == 2000

JobIds == 1..NumJobs
ClientIds == 1..NumClients
Terminal == {JOB_FINISHED, JOB_ERROR, JOB_CANCELLED, JOB_STOPPED}
NoTime == 0 - 1
TailInputs == {0 - 1, 0, 1}

JT(j) == <<"job", j>>
CT(c) == <<"cli", c>>
Tasks == {JT(j) : j \in JobIds} \cup {CT(c) : c \in ClientIds}
Idle == <<"idle", 0>>
NoFrame == [kind |-> "none", job |-> 0, status |-> 0, running |-> 0, line |-> ""]
NoBc == [n |-> 0, cont |-> "", exc |-> "", frame |-> NoFrame, targets |-> {}]
NoLast == [targets |-> {}, written |-> {}, failed |-> {}, removed |-> {}, kept |-> {}]
NoArg == 0
NoLog == [old |-> 0, new |-> <<>>]
NoTail == [job |-> 0, n |-> 0, req |-> 0]
NoReply == [flip |-> FALSE, job |-> 0, req |-> 0, n |-> 0, lines |-> NoLog]
NoOp == [flip |-> FALSE, op |-> "none", task |-> Idle, job |-> 0, status |-> 0,
         line |-> "", stored |-> "off"]
Boot == <<"boot", 0>>
NoBm == [read |-> FALSE, cancel |-> FALSE]

\* labels at which a task is suspended (or does not exist / has ended)
Waiting == {"none", "off", "idle", "crashed", "dead", "done", "drain",
            "so_drain", "hc_closing", "rj_start", "rd_init", "rd_stream",
            "run_wait"}

VARIABLES
  max_jobs,      \* ClusterServer.max_jobs (0 = unlimited)
  store_on,      \* ClusterServer.store is not None
  clients,       \* ClusterServer.clients
  active_jobs,   \* keys of ClusterServer.active_jobs
  pending,       \* ClusterServer.pending (job ids, head first)
  job_records,   \* ClusterServer.job_records: job id -> record
  lock,          \* holder of ClusterServer._lock, or Idle
  running,       \* the task that has the CPU, or Idle
  pc,            \* position of every task
  bc,            \* per task: the _broadcast it is suspended in
  arg,           \* per client task: the job id of its request
  cancel_event,  \* EngineJobRunner.cancel_event per job
  child,         \* EngineJobRunner.proc per job: none / alive / exited / reaped
  silent,        \* the child of the job will produce no further output
  infos,         \* number of info lines the child of the job has produced
  now,           \* epoch_ms()
  budget,        \* external events still to come
  emitted,       \* history: the <<status, log_line>> passed to send_job_update per job
  termCount,     \* history: number of terminal statuses passed to send_job_update
  cancelQueued,  \* history: cancel_job removed the job from pending
  cancelReq,     \* history: cancel_job called request_cancel for the job
  resubmitted,   \* history: <<job id, status>> of the submissions of a known id
  bm,            \* history: the driver read bestmove; was cancel requested before
  unguarded,     \* history: accesses to shared structures made without the lock
  owed,          \* history: per task, a scheduler change not yet followed by server_status
  probe,         \* what the specification records besides the above: "none",
                 \* "frames", "store"
  inbox,         \* recorded under "frames": per client, the job_update frames written to
                 \* its connection as the first client of a broadcast
  upd,           \* recorded under "frames": per job, the number of updates applied
  lastBc,        \* recorded under "frames": the outcome of the broadcast that ended last
  log,           \* recorded under "store": JobRecord.log per job
  logcap,        \* recorded under "store": maxlen of the deque JobRecord.log per job
  store_jobs,    \* recorded under "store": the rows of table jobs: job id -> row
  store_logs,    \* recorded under "store": the rows of table job_logs per job
  store_ok,      \* recorded under "store": "ok", "readonly" (writes raise) or
                 \* "down" (every call raises)
  tailReq,       \* recorded under "store": per client, job id and log_tail of its job_get
  lastOp,        \* history: the last send_job_update or submit store write
  aborted,       \* history: the jobs the store held as incomplete when the server started
  stops,         \* history: per job, how many times the driver sent "stop" (up to MaxStops)
  reply,         \* recorded under "store": the last job_state reply of a known job
  storeFailed    \* history: a call of the store has raised

vars ==
  <<max_jobs, store_on, clients, active_jobs, pending, job_records,
    lock, running, pc, bc, arg, cancel_event,
    child, silent, infos, now, budget, emitted,
    termCount, cancelQueued, cancelReq, resubmitted, bm, unguarded, owed,
    probe, inbox, upd, lastBc, log, logcap, store_jobs, store_logs, store_ok,
    tailReq, lastOp, aborted, stops, reply, storeFailed>>

frameVars == <<inbox, upd, lastBc>>

storeVars ==
  <<log, logcap, store_jobs, store_logs, store_ok, tailReq, lastOp, aborted>>

auxVars == <<stops, reply, storeFailed>>

\* ---- JobRecord ------------------------------------------------------------
\* JobRecord(job_id=...) with the dataclass defaults
NewRecord(ts) ==
  [status |-> JOB_PENDING, created_at_ms |-> ts, started_at_ms |-> NoTime,
   finished_at_ms |-> NoTime, last_update_ms |-> ts, bestmove |-> ""]

\* variant: finished_at is stamped by every terminal update
ApplyUpdateRestamp(rec, status, ts) ==
  LET r1 == [rec EXCEPT !.status = status, !.last_update_ms = ts]
      r2 == IF status = JOB_RUNNING /\ r1.started_at_ms = NoTime
            THEN [r1 EXCEPT !.started_at_ms = ts] ELSE r1
  IN IF status \in Terminal
     THEN [r2 EXCEPT !.finished_at_ms = ts] ELSE r2

\* variant: last_update is taken from a clock that runs behind
ApplyUpdateStaleClock(rec, status, ts) ==
  LET r1 == [rec EXCEPT !.status = status, !.last_update_ms = ts - 1]
      r2 == IF status = JOB_RUNNING /\ r1.started_at_ms = NoTime
            THEN [r1 EXCEPT !.started_at_ms = ts] ELSE r1
  IN IF status \in Terminal /\ r2.finished_at_ms = NoTime
     THEN [r2 EXCEPT !.finished_at_ms = ts] ELSE r2

\* the record mutation of send_job_update (under the lock)
ApplyUpdate(rec, status, ts) ==
  LET r1 == [rec EXCEPT !.status = status, !.last_update_ms = ts]
      r2 == IF status = JOB_RUNNING /\ r1.started_at_ms = NoTime
            THEN [r1 EXCEPT !.started_at_ms = ts] ELSE r1
  IN IF status \in Terminal /\ r2.finished_at_ms = NoTime
     THEN [r2 EXCEPT !.finished_at_ms = ts] ELSE r2

\* `if "bestmove" in fields: rec.bestmove = str(fields["bestmove"])`; only
\* the update made for the engine's bestmove line carries the field
ApplyFields(rec, line) ==
  IF line = "bestmove" THEN [rec EXCEPT !.bestmove = "move"] ELSE rec

Known(j) == j \in DOMAIN job_records
InPending(j) == \E i \in 1..Len(pending) : pending[i] = j
PutRecord(recs, j, rec) ==
  [k \in DOMAIN recs \cup {j} |-> IF k = j THEN rec ELSE recs[k]]

\* ---- logs -------------------------------------------------------------------
\* A log is the number of its lines that were written before this process
\* started (old), followed by the lines written by this process (new).
LogLen(lg) == lg.old + Len(lg.new)

\* the last n lines of a log
LastLines(lg, n) ==
  IF n >= LogLen(lg) THEN lg
  ELSE IF n <= Len(lg.new)
       THEN [old |-> 0, new |-> SubSeq(lg.new, Len(lg.new) - n + 1, Len(lg.new))]
       ELSE [old |-> n - Len(lg.new), new |-> lg.new]

\* deque(lines, maxlen=cap) keeps the last cap lines
Deque(lg, cap) == LastLines(lg, cap)

\* JobRecord.append_log on a deque of maxlen cap: an empty line is skipped,
\* a full deque drops its oldest line
LogAppend(lg, cap, line) ==
  IF line = "" THEN lg
  ELSE LastLines([lg EXCEPT !.new = Append(@, line)], cap)

\* variant: the table keeps no log line
StoreAppendLogSkip(lg, line) == lg

\* JobStore.append_log: an empty line is skipped
StoreAppendLog(lg, line) ==
  IF line = "" THEN lg ELSE [lg EXCEPT !.new = Append(@, line)]

\* `list(rec.log)[-log_tail:]` of _record_to_dict: the slice from index
\* -log_tail to the end, which for log_tail = 0 starts at index 0
TailSlice(lg, n) == IF n = 0 THEN lg ELSE LastLines(lg, n)

\* JobStore.fetch_log_tail(job_id, limit): the last `limit` lines, oldest
\* first
FetchLogTail(slogs, j, limit) == LastLines(slogs[j], limit)

\* variant: INSERT without the ON CONFLICT clause's update; a row that exists
\* is kept
UpsertJobInsertOnly(rows, j, rec) ==
  IF j \in DOMAIN rows THEN rows
  ELSE [k \in DOMAIN rows \cup {j} |->
          IF k = j
          THEN [status |-> rec.status, created_at_ms |-> rec.created_at_ms,
                started_at_ms |-> rec.started_at_ms,
                finished_at_ms |-> rec.finished_at_ms,
                last_update_ms |-> rec.last_update_ms, bestmove |-> rec.bestmove]
          ELSE rows[k]]

\* JobStore.upsert_job: the row of the record is inserted or replaced
UpsertJob(rows, j, rec) ==
  [k \in DOMAIN rows \cup {j} |->
     IF k = j
     THEN [status |-> rec.status, created_at_ms |-> rec.created_at_ms,
           started_at_ms |-> rec.started_at_ms,
           finished_at_ms |-> rec.finished_at_ms,
           last_update_ms |-> rec.last_update_ms, bestmove |-> rec.bestmove]
     ELSE rows[k]]

\* variant: an exception of a store call is not caught
AfterStoreWriteRaises(ok, cont, exc) == IF ok THEN cont ELSE exc

\* `try: store.upsert_job(...); store.append_log(...) except Exception:
\* print(...)`: execution continues whether the calls raised or not
AfterStoreWrite(ok, cont, exc) == cont

\* ---- iteration over the client set ------------------------------------------
\* `for w in self.clients` visits the writers in the order of the set, which
\* is fixed while the set is not modified; the order by client number stands
\* for it
FirstClient(cs) == CHOOSE c \in cs : \A d \in cs : c <= d

\* the clients visited up to and including some client of the set
Prefixes(cs) == {{c \in cs : c <= m} : m \in cs}

\* ---- control ----------------------------------------------------------------
Goto(pcBase, t, l) ==
  /\ pc' = [pcBase EXCEPT ![t] = l]
  /\ running' = IF l \in Waiting THEN Idle ELSE t

\* _broadcast(obj) called by task t when the client set is cs: returns at
\* once when there is no client, otherwise suspends in drain().
Broadcast(pcBase, t, cs, frame, cont, exc) ==
  IF cs = {}
  THEN /\ Goto(pcBase, t, cont)
       /\ bc' = bc
  ELSE /\ pc' = [pcBase EXCEPT ![t] = "drain"]
       /\ running' = Idle
       /\ bc' = [bc EXCEPT ![t] = [n |-> Cardinality(cs), cont |-> cont,
                                    exc |-> exc, frame |-> frame,
                                    targets |-> cs]]

\* `status = SERVER_DEGRADED if max_jobs > 0 and running >= max_jobs`
ServerStatusCode(n) ==
  IF max_jobs > 0 /\ n >= max_jobs THEN SERVER_DEGRADED ELSE SERVER_ONLINE

\* the server_status frame computed when the active map is act
StatusFrame(act) ==
  [kind |-> "status", job |-> 0, status |-> ServerStatusCode(Cardinality(act)),
   running |-> Cardinality(act), line |-> ""]

\* the job_update frame
JobFrame(j, status, line) ==
  [kind |-> "job", job |-> j, status |-> status, running |-> 0, line |-> line]

\* send_server_status by task t when the active map is act: the frame is
\* computed under the lock, then broadcast
SendServerStatus(pcBase, t, cs, act, cont, exc) ==
  /\ lock = Idle
  /\ owed' = [owed EXCEPT ![t] = FALSE]
  /\ Broadcast(pcBase, t, cs, StatusFrame(act), cont, exc)

\* send_job_update(job_id, status, fields, log_line)
SendJobUpdate(t, j, status, line, cont, exc) ==
  LET rec == IF Known(j) THEN job_records[j] ELSE NewRecord(now)
      rec2 == ApplyFields(ApplyUpdate(rec, status, now), line)
      wrote == store_on /\ store_ok = "ok"
  IN /\ lock = Idle
     /\ job_records' = PutRecord(job_records, j, rec2)
     /\ emitted' = [emitted EXCEPT ![j] = @ \cup {<<status, line>>}]
     /\ termCount' = [termCount EXCEPT ![j] = IF status \in Terminal THEN @ + 1 ELSE @]
     /\ upd' = IF probe = "frames" THEN [upd EXCEPT ![j] = @ + 1] ELSE upd
     /\ inbox' = IF probe = "frames" /\ clients # {}
                 THEN [inbox EXCEPT ![FirstClient(clients)] =
                         Append(@, [job |-> j, seq |-> upd[j] + 1, status |-> status])]
                 ELSE inbox
     /\ IF probe = "store"
        THEN /\ log' = [log EXCEPT ![j] = LogAppend(@, logcap[j], line)]
             /\ store_jobs' = IF wrote THEN UpsertJob(store_jobs, j, rec2)
                               ELSE store_jobs
             /\ store_logs' = IF wrote
                               THEN [store_logs EXCEPT ![j] = StoreAppendLog(@, line)]
                               ELSE store_logs
             /\ lastOp' = [flip |-> ~lastOp.flip, op |-> "update", task |-> t,
                            job |-> j, status |-> status, line |-> line,
                            stored |-> IF ~store_on THEN "off"
                                       ELSE IF wrote THEN "ok" ELSE "failed"]
             /\ storeFailed' = (storeFailed \/ (store_on /\ ~wrote))
             /\ UNCHANGED <<logcap, store_ok, tailReq, aborted>>
        ELSE UNCHANGED <<storeVars, storeFailed>>
     /\ UNCHANGED <<stops, reply>>
     /\ IF AfterStoreWrite(~store_on \/ store_ok = "ok", "go", "raise") = "go"
        THEN Broadcast(pc, t, clients, JobFrame(j, status, line), cont, exc)
        ELSE /\ Goto(pc, t, exc)
             /\ bc' = bc

Init ==
  /\ max_jobs \in 0..MaxSlots
  /\ store_on \in BOOLEAN
  /\ clients = {}
  /\ active_jobs = {}
  /\ pending = <<>>
  /\ job_records = <<>>
  /\ lock = Idle
  /\ running = Idle
  /\ pc = [t \in Tasks |-> IF t[1] = "job" THEN "none" ELSE "off"]
  /\ bc = [t \in Tasks |-> NoBc]
  /\ arg = [c \in ClientIds |-> NoArg]
  /\ cancel_event = [j \in JobIds |-> FALSE]
  /\ child = [j \in JobIds |-> "none"]
  /\ silent = [j \in JobIds |-> FALSE]
  /\ infos = [j \in JobIds |-> 0]
  /\ now = 0
  /\ budget = MaxEvents
  /\ emitted = [j \in JobIds |-> {}]
  /\ termCount = [j \in JobIds |-> 0]
  /\ cancelQueued = [j \in JobIds |-> FALSE]
  /\ cancelReq = [j \in JobIds |-> FALSE]
  /\ resubmitted = {}
  /\ bm = [j \in JobIds |-> NoBm]
  /\ unguarded = {}
  /\ owed = [t \in Tasks |-> FALSE]
  /\ probe = "none"
  /\ inbox = [c \in ClientIds |-> <<>>]
  /\ upd = [j \in JobIds |-> 0]
  /\ lastBc = NoLast
  /\ log = [j \in JobIds |-> NoLog]
  /\ logcap = [j \in JobIds |-> LOG_MAXLEN]
  /\ store_jobs = <<>>
  /\ store_logs = [j \in JobIds |-> NoLog]
  /\ store_ok = "ok"
  /\ tailReq = [c \in DOMAIN arg |-> NoTail]
  /\ lastOp = NoOp
  /\ aborted = {}
  /\ stops = [j \in JobIds |-> 0]
  /\ reply = NoReply
  /\ storeFailed = FALSE


\* The event loop runs the callbacks that are ready before it polls for I/O:
\* a task made by create_task takes its first step before any task waiting
\* for a socket, a pipe or a child is resumed and before any new input is
\* read.
IoReady ==
  /\ running = Idle
  /\ \A t \in DOMAIN pc : pc[t] # "rj_start"

\* an external event (a connection, a disconnection, a client frame, a hung
\* child, a clock tick) arrives while the event loop is idle
Event ==
  /\ IoReady
  /\ budget > 0
  /\ budget' = budget - 1

\* ---- connections (handle_client) ----------------------------------------
\* a client connects: the writer is added, then server_status is broadcast
\* (outside the try block: an exception here ends the task without cleanup)
Connect(c) ==
  /\ Event
  /\ pc[CT(c)] = "off"
  /\ clients' = clients \cup {c}
  /\ SendServerStatus(pc, CT(c), clients \cup {c}, active_jobs, "idle", "crashed")
  /\ UNCHANGED <<max_jobs, store_on, active_jobs, pending, job_records, lock,
                 arg, cancel_event, child, silent, infos, now, emitted,
                 termCount, cancelQueued, cancelReq, resubmitted, bm>>
  /\ unguarded' = unguarded \cup {"clients.add", "clients.iterate"}
  /\ inbox' = [inbox EXCEPT ![c] = <<>>]
  /\ UNCHANGED <<probe, upd, lastBc>>
  /\ UNCHANGED storeVars
  /\ UNCHANGED auxVars

\* reader.readline() returns EOF: finally: writer.close(), await wait_closed()
Disconnect(c) ==
  /\ Event
  /\ pc[CT(c)] = "idle"
  /\ Goto(pc, CT(c), "hc_closing")
  /\ UNCHANGED <<max_jobs, store_on, clients, active_jobs, pending,
                 job_records, lock, bc, arg, cancel_event, child, silent,
                 infos, now, emitted, termCount, cancelQueued, cancelReq,
                 resubmitted, bm>>
  /\ UNCHANGED <<unguarded, owed, probe, frameVars>>
  /\ UNCHANGED storeVars
  /\ UNCHANGED auxVars

\* wait_closed() returned: self.clients.discard(writer), the task ends
Closed(c) ==
  /\ IoReady
  /\ pc[CT(c)] = "hc_closing"
  /\ clients' = clients \ {c}
  /\ Goto(pc, CT(c), "off")
  /\ UNCHANGED <<max_jobs, store_on, active_jobs, pending, job_records, lock,
                 bc, arg, cancel_event, child, silent, infos, now, budget,
                 emitted, termCount, cancelQueued, cancelReq, resubmitted,
                 bm>>
  /\ unguarded' = unguarded \cup {"clients.discard"}
  /\ UNCHANGED <<owed, probe, frameVars>>
  /\ UNCHANGED storeVars
  /\ UNCHANGED auxVars

\* clients whose handler is in its finally block: it has closed the writer
\* and will discard it
Closing == {c \in clients : pc[CT(c)] = "hc_closing"}

\* clients whose connection is gone (the handler saw EOF or has ended with
\* an exception): a write to them may fail
Broken == {c \in clients : pc[CT(c)] \in {"hc_closing", "crashed"}}

\* a task suspended in _broadcast resumes.  `for w in self.clients` raises
\* RuntimeError when the set changed size while the task was suspended;
\* otherwise the clients whose write failed are closed and discarded.
DrainDone(t) ==
  /\ IoReady
  /\ pc[t] = "drain"
  /\ bc' = [bc EXCEPT ![t] = NoBc]
  /\ IF Cardinality(clients) # bc[t].n
     THEN /\ clients' = clients
          /\ unguarded' = unguarded
          /\ IF probe = "frames"
             THEN \E w \in Prefixes(bc[t].targets) :
                    \E f \in SUBSET (w \cap ((bc[t].targets \ clients) \cup Broken)) :
                      lastBc' = [targets |-> bc[t].targets, written |-> w,
                                 failed |-> f, removed |-> {},
                                 kept |-> clients \ Closing]
             ELSE lastBc' = lastBc
          /\ Goto(pc, t, bc[t].exc)
     ELSE \E dead \in SUBSET Broken :
            /\ clients' = clients \ dead
            /\ unguarded' = unguarded \cup
                              (IF dead = {} THEN {} ELSE {"clients.discard"})
            /\ lastBc' = IF probe = "frames"
                         THEN [targets |-> bc[t].targets, written |-> bc[t].targets,
                               failed |-> dead, removed |-> dead,
                               kept |-> (clients \ dead) \ Closing]
                         ELSE lastBc
            /\ Goto(pc, t, bc[t].cont)
  /\ UNCHANGED <<max_jobs, store_on, active_jobs, pending, job_records, lock,
                 arg, cancel_event, child, silent, infos, now, budget,
                 emitted, termCount, cancelQueued, cancelReq, resubmitted,
                 bm>>
  /\ UNCHANGED <<owed, probe, inbox, upd>>
  /\ UNCHANGED storeVars
  /\ UNCHANGED auxVars

\* _send_one: the write to the requesting client completed or failed
SendOneDone(c) ==
  /\ IoReady
  /\ pc[CT(c)] = "so_drain"
  /\ \E ok \in BOOLEAN :
       /\ clients' = IF ok THEN clients ELSE clients \ {c}
       /\ unguarded' = unguarded \cup
                         (IF ok \/ c \notin clients THEN {} ELSE {"clients.discard"})
       /\ lastBc' = IF probe = "frames"
                    THEN [targets |-> {c}, written |-> {c},
                          failed |-> IF ok THEN {} ELSE {c},
                          removed |-> IF ok THEN {} ELSE {c} \cap clients,
                          kept |-> (IF ok THEN clients ELSE clients \ {c}) \ Closing]
                    ELSE lastBc
  /\ Goto(pc, CT(c), "idle")
  /\ UNCHANGED <<max_jobs, store_on, active_jobs, pending, job_records, lock,
                 bc, arg, cancel_event, child, silent, infos, now, budget,
                 emitted, termCount, cancelQueued, cancelReq, resubmitted,
                 bm>>
  /\ UNCHANGED <<owed, probe, inbox, upd>>
  /\ UNCHANGED storeVars
  /\ UNCHANGED auxVars

\* ---- handle_message: ping, jobs_list, job_get -----------------------------
Frame(c) ==
  /\ pc[CT(c)] = "idle"
  /\ Event

Ping(c) ==
  /\ Frame(c)
  /\ SendServerStatus(pc, CT(c), clients, active_jobs, "idle", "hc_closing")
  /\ UNCHANGED <<max_jobs, store_on, clients, active_jobs, pending,
                 job_records, lock, arg, cancel_event, child, silent, infos,
                 now, emitted, termCount, cancelQueued, cancelReq,
                 resubmitted, bm>>
  /\ UNCHANGED <<unguarded, probe, frameVars>>
  /\ UNCHANGED storeVars
  /\ UNCHANGED auxVars

\* jobs_list: the reply is built from memory under the lock, then _send_one
JobsList(c) ==
  /\ Frame(c)
  /\ lock = Idle
  /\ Goto(pc, CT(c), "so_drain")
  /\ UNCHANGED <<max_jobs, store_on, clients, active_jobs, pending,
                 job_records, lock, bc, arg, cancel_event, child, silent,
                 infos, now, emitted, termCount, cancelQueued, cancelReq,
                 resubmitted, bm>>
  /\ UNCHANGED <<unguarded, owed, probe, frameVars>>
  /\ UNCHANGED storeVars
  /\ UNCHANGED auxVars

Min(a, b) == IF a < b THEN a ELSE b
Max(a, b) == IF a > b THEN a ELSE b

\* log_tail = int(obj.get("log_tail", 2000) or 2000), clamped to [0, 20000]
LogTailParam(n) ==
  LET v == IF n = 0 THEN DEFAULT_LOG_TAIL ELSE n
  IN Max(0, Min(v, MAX_LOG_TAIL))

\* job_get: takes the lock and looks the record up
JobGet(c, j, n) ==
  /\ Frame(c)
  /\ lock = Idle
  /\ lock' = CT(c)
  /\ Goto(pc, CT(c),
          IF store_on /\ Known(j) /\ LogTailParam(n) > 0
          THEN "jg_fetch" ELSE "jg_reply")
  /\ UNCHANGED <<max_jobs, store_on, clients, active_jobs, pending,
                 job_records, bc, arg, cancel_event, child, silent, infos,
                 now, emitted, termCount, cancelQueued, cancelReq,
                 resubmitted, bm>>
  /\ UNCHANGED <<unguarded, owed, probe, frameVars>>
  /\ tailReq' = IF probe = "store"
                THEN [tailReq EXCEPT ![c] = [job |-> j, n |-> LogTailParam(n), req |-> n]]
                ELSE tailReq
  /\ UNCHANGED <<log, logcap, store_jobs, store_logs, store_ok, lastOp, aborted>>
  /\ UNCHANGED auxVars

\* job_get, still under the lock: `tail = store.fetch_log_tail(job_id,
\* log_tail); rec.log = deque(tail, maxlen=max(2000, log_tail))`; an exception
\* of the store is passed over
JgFetch(c) ==
  /\ running = CT(c)
  /\ pc[CT(c)] = "jg_fetch"
  /\ lock = CT(c)
  /\ Goto(pc, CT(c), "jg_reply")
  /\ UNCHANGED <<max_jobs, store_on, clients, active_jobs, pending,
                 job_records, lock, bc, arg, cancel_event, child, silent,
                 infos, now, budget, emitted, termCount, cancelQueued,
                 cancelReq, resubmitted, bm>>
  /\ UNCHANGED <<unguarded, owed, probe, frameVars>>
  /\ IF probe = "store" /\ store_ok # "down"
     THEN LET j == tailReq[c].job
              n == tailReq[c].n
          IN /\ log' = [log EXCEPT ![j] =
                          Deque(FetchLogTail(store_logs, j, n), Max(LOG_MAXLEN, n))]
             /\ logcap' = [logcap EXCEPT ![j] = Max(LOG_MAXLEN, n)]
     ELSE UNCHANGED <<log, logcap>>
  /\ UNCHANGED <<store_jobs, store_logs, store_ok, tailReq, lastOp, aborted>>
  /\ storeFailed' = (storeFailed \/ (probe = "store" /\ store_ok = "down"))
  /\ UNCHANGED <<stops, reply>>

\* job_get: the reply is built, the lock released, then _send_one
JgReply(c) ==
  /\ running = CT(c)
  /\ pc[CT(c)] = "jg_reply"
  /\ lock = CT(c)
  /\ lock' = Idle
  /\ Goto(pc, CT(c), "so_drain")
  /\ UNCHANGED <<max_jobs, store_on, clients, active_jobs, pending,
                 job_records, bc, arg, cancel_event, child, silent, infos,
                 now, budget, emitted, termCount, cancelQueued, cancelReq,
                 resubmitted, bm>>
  /\ UNCHANGED <<unguarded, owed, probe, frameVars>>
  /\ UNCHANGED storeVars
  /\ reply' = IF probe = "store" /\ Known(tailReq[c].job)
              THEN [flip |-> ~reply.flip, job |-> tailReq[c].job,
                    req |-> tailReq[c].req, n |-> tailReq[c].n,
                    lines |-> TailSlice(log[tailReq[c].job], tailReq[c].n)]
              ELSE reply
  /\ UNCHANGED <<stops, storeFailed>>

\* ---- scheduler ------------------------------------------------------------
\* variant: the slot test compares with > instead of >=
NoFreeSlotBug(n) == max_jobs > 0 /\ n > max_jobs

\* `self.max_jobs > 0 and len(self.active_jobs) >= self.max_jobs`
NoFreeSlot(n) == max_jobs > 0 /\ n >= max_jobs

\* variant: only a job waiting in the queue counts as known
AlreadyKnownPendingOnly(j) == InPending(j)

\* variant: the idempotency test forgets the record set
AlreadyKnownBug(j) == j \in active_jobs \/ InPending(j)

\* submit_job: the id is in job_records, in active_jobs or in pending
AlreadyKnown(j) == Known(j) \/ j \in active_jobs \/ InPending(j)

\* where a task goes when _try_start_next returns / raises
TsnReturn(t) == IF t[1] = "job" THEN "done" ELSE "idle"
TsnRaise(t) == IF t[1] = "job" THEN "done" ELSE "hc_closing"

\* job_submit_or_update -> submit_job, the section under the lock
Submit(c, j) ==
  /\ Frame(c)
  /\ lock = Idle
  /\ IF AlreadyKnown(j)
     THEN /\ Goto(pc, CT(c), "idle")
          /\ resubmitted' = IF Known(j)
                            THEN resubmitted \cup {<<j, job_records[j].status>>}
                            ELSE resubmitted
          /\ UNCHANGED <<job_records, arg, pending, active_jobs,
                         cancel_event, owed>>
     ELSE /\ job_records' = PutRecord(job_records, j, NewRecord(now))
          /\ resubmitted' = resubmitted
          /\ arg' = [arg EXCEPT ![c] = j]
          /\ IF NoFreeSlot(Cardinality(active_jobs))
             THEN /\ pending' = Append(pending, j)
                  /\ Goto(pc, CT(c), "sub_queued")
                  /\ UNCHANGED <<active_jobs, cancel_event, owed>>
             ELSE /\ active_jobs' = active_jobs \cup {j}
                  /\ cancel_event' = [cancel_event EXCEPT ![j] = FALSE]
                  /\ owed' = [owed EXCEPT ![CT(c)] = TRUE]
                  /\ Goto([pc EXCEPT ![JT(j)] = "rj_start"], CT(c), "sub_status_nq")
                  /\ UNCHANGED pending
  /\ UNCHANGED <<max_jobs, store_on, clients, lock, bc, child, silent, infos,
                 now, emitted, termCount, cancelQueued, cancelReq, bm>>
  /\ UNCHANGED <<unguarded, probe, frameVars>>
  /\ log' = IF probe = "store" /\ ~AlreadyKnown(j)
            THEN [log EXCEPT ![j] = NoLog] ELSE log
  /\ logcap' = IF probe = "store" /\ ~AlreadyKnown(j)
               THEN [logcap EXCEPT ![j] = LOG_MAXLEN] ELSE logcap
  /\ UNCHANGED <<store_jobs, store_logs, store_ok, tailReq, lastOp, aborted>>
  /\ UNCHANGED auxVars

\* submit_job: `if queued: send_job_update(QUEUED, log_line="queued")`
SubQueued(c) ==
  /\ running = CT(c)
  /\ pc[CT(c)] = "sub_queued"
  /\ SendJobUpdate(CT(c), arg[c], JOB_QUEUED, "queued", "sub_status_q", "hc_closing")
  /\ UNCHANGED <<max_jobs, store_on, clients, active_jobs, pending, lock, arg,
                 cancel_event, child, silent, infos, now, budget,
                 cancelQueued, cancelReq, resubmitted, bm>>
  /\ UNCHANGED <<unguarded, owed, probe, lastBc>>

\* submit_job: send_server_status
SubStatus(c) ==
  /\ running = CT(c)
  /\ pc[CT(c)] \in {"sub_status_q", "sub_status_nq"}
  /\ SendServerStatus(pc, CT(c), clients, active_jobs,
                      IF pc[CT(c)] = "sub_status_q" THEN "sub_store_q" ELSE "sub_store_nq",
                      "hc_closing")
  /\ UNCHANGED <<max_jobs, store_on, clients, active_jobs, pending,
                 job_records, lock, arg, cancel_event, child, silent, infos,
                 now, budget, emitted, termCount, cancelQueued, cancelReq,
                 resubmitted, bm>>
  /\ UNCHANGED <<unguarded, probe, frameVars>>
  /\ UNCHANGED storeVars
  /\ UNCHANGED auxVars

\* submit_job: store.upsert_job, store.append_log("submitted"), and
\* `if queued: _try_start_next()`
SubStore(c) ==
  LET j == arg[c]
      wrote == store_on /\ store_ok = "ok"
      next == IF pc[CT(c)] = "sub_store_q" THEN "tsn" ELSE "idle"
  IN /\ running = CT(c)
     /\ pc[CT(c)] \in {"sub_store_q", "sub_store_nq"}
     /\ arg' = [arg EXCEPT ![c] = NoArg]
     /\ Goto(pc, CT(c),
             AfterStoreWrite(~store_on \/ store_ok = "ok", next, "hc_closing"))
     /\ IF probe = "store"
        THEN /\ store_jobs' = IF wrote
                               THEN UpsertJob(store_jobs, j, job_records[j])
                               ELSE store_jobs
             /\ store_logs' = IF wrote
                               THEN [store_logs EXCEPT ![j] =
                                       StoreAppendLog(@, "submitted")]
                               ELSE store_logs
             /\ lastOp' = [flip |-> ~lastOp.flip, op |-> "submit",
                            task |-> CT(c), job |-> j,
                            status |-> job_records[j].status,
                            line |-> "submitted",
                            stored |-> IF ~store_on THEN "off"
                                       ELSE IF wrote THEN "ok" ELSE "failed"]
             /\ storeFailed' = (storeFailed \/ (store_on /\ ~wrote))
             /\ UNCHANGED <<log, logcap, store_ok, tailReq, aborted>>
        ELSE UNCHANGED <<storeVars, storeFailed>>
     /\ UNCHANGED <<stops, reply>>
     /\ UNCHANGED <<max_jobs, store_on, clients, active_jobs, pending,
                    job_records, lock, bc, cancel_event, child, silent, infos,
                    now, budget, emitted, termCount, cancelQueued, cancelReq,
                    resubmitted, bm>>
     /\ UNCHANGED <<unguarded, owed, probe, frameVars>>

\* one iteration of the loop of _try_start_next
TryStartNext(t) ==
  /\ running = t
  /\ pc[t] = "tsn"
  /\ lock = Idle
  /\ IF NoFreeSlot(Cardinality(active_jobs)) \/ pending = <<>>
     THEN /\ Goto(pc, t, TsnReturn(t))
          /\ UNCHANGED <<pending, active_jobs, cancel_event, bc, owed>>
     ELSE LET k == Head(pending)
          IN /\ pending' = Tail(pending)
             /\ active_jobs' = active_jobs \cup {k}
             /\ cancel_event' = [cancel_event EXCEPT ![k] = FALSE]
             /\ SendServerStatus([pc EXCEPT ![JT(k)] = "rj_start"], t, clients,
                                 active_jobs \cup {k}, "tsn", TsnRaise(t))
  /\ UNCHANGED <<max_jobs, store_on, clients, job_records, lock, arg, child,
                 silent, infos, now, budget, emitted, termCount, cancelQueued,
                 cancelReq, resubmitted, bm>>
  /\ UNCHANGED <<unguarded, probe, frameVars>>
  /\ UNCHANGED storeVars
  /\ UNCHANGED auxVars

\* variant: cancel_job leaves the entry in the queue
RemoveAtBug(s, i) == s

\* `del self.pending[i]`
RemoveAt(s, i) == SubSeq(s, 1, i - 1) \o SubSeq(s, i + 1, Len(s))

\* the index of the first entry of the queue with job id j
IndexOf(s, j) == CHOOSE i \in 1..Len(s) : s[i] = j /\ \A k \in 1..(i - 1) : s[k] # j

\* job_cancel -> cancel_job, the section under the lock
Cancel(c, j) ==
  /\ Frame(c)
  /\ lock = Idle
  /\ IF j \in active_jobs
     THEN /\ cancel_event' = [cancel_event EXCEPT ![j] = TRUE]
          /\ cancelReq' = [cancelReq EXCEPT ![j] = TRUE]
          /\ Goto(pc, CT(c), "idle")
          /\ UNCHANGED <<pending, arg, cancelQueued, owed>>
     ELSE IF InPending(j)
     THEN /\ pending' = RemoveAt(pending, IndexOf(pending, j))
          /\ cancelQueued' = [cancelQueued EXCEPT ![j] = TRUE]
          /\ arg' = [arg EXCEPT ![c] = j]
          /\ owed' = [owed EXCEPT ![CT(c)] = TRUE]
          /\ Goto(pc, CT(c), "can_update")
          /\ UNCHANGED <<cancel_event, cancelReq>>
     ELSE /\ Goto(pc, CT(c), "idle")
          /\ UNCHANGED <<pending, arg, cancelQueued, cancel_event, cancelReq,
                         owed>>
  /\ UNCHANGED <<max_jobs, store_on, clients, active_jobs, job_records, lock,
                 bc, child, silent, infos, now, emitted, termCount,
                 resubmitted, bm>>
  /\ UNCHANGED <<unguarded, probe, frameVars>>
  /\ UNCHANGED storeVars
  /\ UNCHANGED auxVars

\* cancel_job: send_job_update(CANCELLED, log_line="cancelled (queued)")
CanUpdate(c) ==
  /\ running = CT(c)
  /\ pc[CT(c)] = "can_update"
  /\ SendJobUpdate(CT(c), arg[c], JOB_CANCELLED, "cancelled (queued)",
                   "can_status", "hc_closing")
  /\ arg' = [arg EXCEPT ![c] = NoArg]
  /\ UNCHANGED <<max_jobs, store_on, clients, active_jobs, pending, lock,
                 cancel_event, child, silent, infos, now, budget,
                 cancelQueued, cancelReq, resubmitted, bm>>
  /\ UNCHANGED <<unguarded, owed, probe, lastBc>>

\* cancel_job: send_server_status, then _try_start_next
CanStatus(c) ==
  /\ running = CT(c)
  /\ pc[CT(c)] = "can_status"
  /\ SendServerStatus(pc, CT(c), clients, active_jobs, "tsn", "hc_closing")
  /\ UNCHANGED <<max_jobs, store_on, clients, active_jobs, pending,
                 job_records, lock, arg, cancel_event, child, silent, infos,
                 now, budget, emitted, termCount, cancelQueued, cancelReq,
                 resubmitted, bm>>
  /\ UNCHANGED <<unguarded, probe, frameVars>>
  /\ UNCHANGED storeVars
  /\ UNCHANGED auxVars


\* ---- _run_job and EngineJobRunner.run -------------------------------------
ReadLabels == {"rd_init", "rd_stream"}

\* variant: the bestmove is always classified FINISHED
FinalStatusBug(cancelled) == JOB_FINISHED

\* `JOB_CANCELLED if self.cancel_event.is_set() else JOB_FINISHED`
FinalStatus(cancelled) == IF cancelled THEN JOB_CANCELLED ELSE JOB_FINISHED

\* finally: `if self.proc.returncode is None: self.proc.kill()`
KillIfAlive(ch) == IF ch = "alive" THEN "exited" ELSE ch

\* variant: the cleanup does not wait for the child
AfterWaitBug(ch) == ch

\* finally: `await self.proc.wait()`
AfterWait(ch) == "reaped"

\* the task created by create_task(self._run_job(runner)) gets the CPU:
\* send_job_update(RUNNING, log_line="started"), outside the try block
RjStart(j) ==
  /\ running = Idle
  /\ pc[JT(j)] = "rj_start"
  /\ SendJobUpdate(JT(j), j, JOB_RUNNING, "started", "run_spawn", "dead")
  /\ UNCHANGED <<max_jobs, store_on, clients, active_jobs, pending, lock, arg,
                 cancel_event, child, silent, infos, now, budget,
                 cancelQueued, cancelReq, resubmitted, bm>>
  /\ UNCHANGED <<unguarded, owed, probe, lastBc>>

\* run(): create_subprocess_exec and send("uci"); either may raise
RunSpawn(j) ==
  /\ running = JT(j)
  /\ pc[JT(j)] = "run_spawn"
  /\ \E r \in {"ok", "spawn_fail", "write_fail"} :
       /\ child' = [child EXCEPT ![j] = IF r = "spawn_fail" THEN "none" ELSE "alive"]
       /\ Goto(pc, JT(j), IF r = "ok" THEN "rd_init" ELSE "run_except")
  /\ UNCHANGED <<max_jobs, store_on, clients, active_jobs, pending,
                 job_records, lock, bc, arg, cancel_event, silent, infos, now,
                 budget, emitted, termCount, cancelQueued, cancelReq,
                 resubmitted, bm>>
  /\ UNCHANGED <<unguarded, owed, probe, frameVars>>
  /\ UNCHANGED storeVars
  /\ UNCHANGED auxVars

\* the handshake (uciok, setoption, isready, readyok, ucinewgame, position,
\* go) completes, or a readline() returns EOF, or a send fails
ReadInit(j, r) ==
  /\ IoReady
  /\ pc[JT(j)] = "rd_init"
  /\ child[j] = "alive"
  /\ ~silent[j]
  /\ \E ch \in {"alive", "exited"} :
       child' = [child EXCEPT ![j] = IF r = "eof" THEN ch ELSE "alive"]
  /\ Goto(pc, JT(j),
          IF r = "ok" THEN "stream_top" ELSE "run_except")
  /\ UNCHANGED <<max_jobs, store_on, clients, active_jobs, pending,
                 job_records, lock, bc, arg, cancel_event, silent, infos, now,
                 budget, emitted, termCount, cancelQueued, cancelReq,
                 resubmitted, bm>>
  /\ UNCHANGED <<unguarded, owed, probe, frameVars>>
  /\ UNCHANGED storeVars
  /\ UNCHANGED auxVars

\* top of the streaming loop: `if cancel_event.is_set(): send("stop")`, then
\* readline()
StreamTop(j) ==
  /\ running = JT(j)
  /\ pc[JT(j)] = "stream_top"
  /\ \E ok \in BOOLEAN :
       /\ Goto(pc, JT(j), IF cancel_event[j] /\ ~ok THEN "run_except" ELSE "rd_stream")
       /\ stops' = IF cancel_event[j] /\ ok
                   THEN [stops EXCEPT ![j] = Min(@ + 1, MaxStops)]
                   ELSE stops
  /\ UNCHANGED <<max_jobs, store_on, clients, active_jobs, pending,
                 job_records, lock, bc, arg, cancel_event, child, silent,
                 infos, now, budget, emitted, termCount, cancelQueued,
                 cancelReq, resubmitted, bm>>
  /\ UNCHANGED <<unguarded, owed, probe, frameVars>>
  /\ UNCHANGED storeVars
  /\ UNCHANGED <<reply, storeFailed>>

\* readline() in the streaming loop returns an info line
ReadInfo(j) ==
  /\ IoReady
  /\ pc[JT(j)] = "rd_stream"
  /\ child[j] = "alive"
  /\ ~silent[j]
  /\ infos[j] < MaxInfo
  /\ infos' = [infos EXCEPT ![j] = @ + 1]
  /\ SendJobUpdate(JT(j), j, JOB_RUNNING, "info", "stream_top", "run_except")
  /\ UNCHANGED <<max_jobs, store_on, clients, active_jobs, pending, lock, arg,
                 cancel_event, child, silent, now, budget, cancelQueued,
                 cancelReq, resubmitted, bm>>
  /\ UNCHANGED <<unguarded, owed, probe, lastBc>>

\* readline() in the streaming loop returns the bestmove line
ReadBestmove(j) ==
  /\ IoReady
  /\ pc[JT(j)] = "rd_stream"
  /\ child[j] = "alive"
  /\ ~silent[j]
  /\ bm' = [bm EXCEPT ![j] = [read |-> TRUE, cancel |-> cancelReq[j]]]
  /\ SendJobUpdate(JT(j), j, FinalStatus(cancel_event[j]), "bestmove",
                   "run_finally", "run_except")
  /\ UNCHANGED <<max_jobs, store_on, clients, active_jobs, pending, lock, arg,
                 cancel_event, child, silent, infos, now, budget,
                 cancelQueued, cancelReq, resubmitted>>
  /\ UNCHANGED <<unguarded, owed, probe, lastBc>>

\* readline() in the streaming loop returns a blank or unrecognised line
\* (`continue`) or EOF (RuntimeError)
ReadOther(j, r) ==
  /\ IoReady
  /\ pc[JT(j)] = "rd_stream"
  /\ child[j] = "alive"
  /\ ~silent[j]
  /\ \E ch \in {"alive", "exited"} :
       child' = [child EXCEPT ![j] = IF r = "eof" THEN ch ELSE "alive"]
  /\ Goto(pc, JT(j), IF r = "eof" THEN "run_except" ELSE "stream_top")
  /\ UNCHANGED <<max_jobs, store_on, clients, active_jobs, pending,
                 job_records, lock, bc, arg, cancel_event, silent, infos, now,
                 budget, emitted, termCount, cancelQueued, cancelReq,
                 resubmitted, bm>>
  /\ UNCHANGED <<unguarded, owed, probe, frameVars>>
  /\ UNCHANGED storeVars
  /\ UNCHANGED auxVars

\* the child stops producing output while the driver waits for a line
EngineHang(j) ==
  /\ Event
  /\ pc[JT(j)] \in ReadLabels
  /\ child[j] = "alive"
  /\ ~silent[j]
  /\ silent' = [silent EXCEPT ![j] = TRUE]
  /\ UNCHANGED <<max_jobs, store_on, clients, active_jobs, pending,
                 job_records, lock, running, pc, bc, arg, cancel_event, child,
                 infos, now, emitted, termCount, cancelQueued, cancelReq,
                 resubmitted, bm>>
  /\ UNCHANGED <<unguarded, owed, probe, frameVars>>
  /\ UNCHANGED storeVars
  /\ UNCHANGED auxVars

\* `except Exception`: send_job_update(ERROR, log_line="[job ..] Error: ..")
RunExcept(j) ==
  /\ running = JT(j)
  /\ pc[JT(j)] = "run_except"
  /\ SendJobUpdate(JT(j), j, JOB_ERROR, "error", "run_finally", "run_finally")
  /\ UNCHANGED <<max_jobs, store_on, clients, active_jobs, pending, lock, arg,
                 cancel_event, child, silent, infos, now, budget,
                 cancelQueued, cancelReq, resubmitted, bm>>
  /\ UNCHANGED <<unguarded, owed, probe, lastBc>>

\* `finally` of run(): kill the child if it is alive, then await proc.wait()
RunFinally(j) ==
  /\ running = JT(j)
  /\ pc[JT(j)] = "run_finally"
  /\ IF child[j] = "none"
     THEN /\ Goto(pc, JT(j), "rj_finally")
          /\ child' = child
     ELSE /\ child' = [child EXCEPT ![j] = KillIfAlive(@)]
          /\ Goto(pc, JT(j), "run_wait")
  /\ UNCHANGED <<max_jobs, store_on, clients, active_jobs, pending,
                 job_records, lock, bc, arg, cancel_event, silent, infos, now,
                 budget, emitted, termCount, cancelQueued, cancelReq,
                 resubmitted, bm>>
  /\ UNCHANGED <<unguarded, owed, probe, frameVars>>
  /\ UNCHANGED storeVars
  /\ UNCHANGED auxVars

\* proc.wait() returned; run() returns to _run_job
Reaped(j) ==
  /\ IoReady
  /\ pc[JT(j)] = "run_wait"
  /\ child[j] = "exited"
  /\ child' = [child EXCEPT ![j] = AfterWait(@)]
  /\ Goto(pc, JT(j), "rj_finally")
  /\ UNCHANGED <<max_jobs, store_on, clients, active_jobs, pending,
                 job_records, lock, bc, arg, cancel_event, silent, infos, now,
                 budget, emitted, termCount, cancelQueued, cancelReq,
                 resubmitted, bm>>
  /\ UNCHANGED <<unguarded, owed, probe, frameVars>>
  /\ UNCHANGED storeVars
  /\ UNCHANGED auxVars

\* `finally` of _run_job: active_jobs.pop under the lock, send_server_status,
\* then _try_start_next
RjFinally(j) ==
  /\ running = JT(j)
  /\ pc[JT(j)] = "rj_finally"
  /\ active_jobs' = active_jobs \ {j}
  /\ SendServerStatus(pc, JT(j), clients, active_jobs \ {j}, "tsn", "done")
  /\ UNCHANGED <<max_jobs, store_on, clients, pending, job_records, lock, arg,
                 cancel_event, child, silent, infos, now, budget, emitted,
                 termCount, cancelQueued, cancelReq, resubmitted, bm>>
  /\ UNCHANGED <<unguarded, probe, frameVars>>
  /\ UNCHANGED storeVars
  /\ UNCHANGED auxVars

\* epoch_ms() advances
Tick ==
  /\ Event
  /\ now < MaxClock
  /\ now' = now + 1
  /\ UNCHANGED <<max_jobs, store_on, clients, active_jobs, pending,
                 job_records, lock, running, pc, bc, arg, cancel_event, child,
                 silent, infos, emitted, termCount, cancelQueued, cancelReq,
                 resubmitted, bm>>
  /\ UNCHANGED <<unguarded, owed, probe, frameVars>>
  /\ UNCHANGED storeVars
  /\ UNCHANGED auxVars

Next ==
  \/ \E c \in ClientIds : Connect(c)
  \/ \E c \in ClientIds : Disconnect(c)
  \/ \E c \in ClientIds : Closed(c)
  \/ \E t \in Tasks : DrainDone(t)
  \/ \E c \in ClientIds : SendOneDone(c)
  \/ \E c \in ClientIds : Ping(c)
  \/ \E c \in ClientIds : JobsList(c)
  \/ \E c \in ClientIds, j \in JobIds, n \in TailInputs : JobGet(c, j, n)
  \/ \E c \in ClientIds : JgFetch(c)
  \/ \E c \in ClientIds : JgReply(c)
  \/ \E c \in ClientIds, j \in JobIds : Submit(c, j)
  \/ \E c \in ClientIds : SubQueued(c)
  \/ \E c \in ClientIds : SubStatus(c)
  \/ \E c \in ClientIds : SubStore(c)
  \/ \E t \in Tasks : TryStartNext(t)
  \/ \E c \in ClientIds, j \in JobIds : Cancel(c, j)
  \/ \E c \in ClientIds : CanUpdate(c)
  \/ \E c \in ClientIds : CanStatus(c)
  \/ \E j \in JobIds : RjStart(j)
  \/ \E j \in JobIds : RunSpawn(j)
  \/ \E j \in JobIds, r \in {"ok", "eof", "write_fail"} : ReadInit(j, r)
  \/ \E j \in JobIds : StreamTop(j)
  \/ \E j \in JobIds : ReadInfo(j)
  \/ \E j \in JobIds : ReadBestmove(j)
  \/ \E j \in JobIds, r \in {"blank", "eof"} : ReadOther(j, r)
  \/ \E j \in JobIds : EngineHang(j)
  \/ \E j \in JobIds : RunExcept(j)
  \/ \E j \in JobIds : RunFinally(j)
  \/ \E j \in JobIds : Reaped(j)
  \/ \E j \in JobIds : RjFinally(j)
  \/ Tick

Spec == Init /\ [][Next]_vars

TypeOK ==
  /\ max_jobs \in 0..MaxSlots
  /\ clients \subseteq ClientIds
  /\ active_jobs \subseteq JobIds
  /\ DOMAIN job_records \subseteq JobIds
  /\ running \in Tasks \cup {Idle}
  /\ lock \in Tasks \cup {Idle}
  /\ now \in 0..MaxClock
  /\ budget \in 0..MaxEvents


\* the steps the event loop takes by itself: resuming a task whose await has
\* completed and running a task that has the CPU
TaskStep ==
  \/ \E c \in ClientIds : Closed(c)
  \/ \E t \in Tasks : DrainDone(t)
  \/ \E c \in ClientIds : SendOneDone(c)
  \/ \E c \in ClientIds : JgFetch(c)
  \/ \E c \in ClientIds : JgReply(c)
  \/ \E c \in ClientIds : SubQueued(c)
  \/ \E c \in ClientIds : SubStatus(c)
  \/ \E c \in ClientIds : SubStore(c)
  \/ \E t \in Tasks : TryStartNext(t)
  \/ \E c \in ClientIds : CanUpdate(c)
  \/ \E c \in ClientIds : CanStatus(c)
  \/ \E j \in JobIds : RjStart(j)
  \/ \E j \in JobIds : RunSpawn(j)
  \/ \E j \in JobIds : StreamTop(j)
  \/ \E j \in JobIds : RunExcept(j)
  \/ \E j \in JobIds : RunFinally(j)
  \/ \E j \in JobIds : Reaped(j)
  \/ \E j \in JobIds : RjFinally(j)

\* a child that has not hung eventually writes its bestmove line
EngineStep == \E j \in JobIds : ReadBestmove(j)

\* the event loop is fair to every runnable task
FairSpec == Init /\ [][Next]_vars /\ WF_vars(TaskStep) /\ WF_vars(EngineStep)

\* ---- the server with several clients connected -----------------------------
\* One client more than the main specification has; the first one sends the
\* requests, every one of them may disconnect.  The frames written to the
\* clients are recorded.
FrameClients == 1..(NumClients + 1)
FrameTasks == {JT(j) : j \in JobIds} \cup {CT(c) : c \in FrameClients}
Operator == FirstClient(FrameClients)

\* the state after the clients have connected and received server_status;
\* p tells what is recorded, b is the number of external events to come
FrameStart(p, b) ==
  /\ max_jobs \in 1..MaxSlots
  /\ store_on = FALSE
  /\ clients = FrameClients
  /\ active_jobs = {}
  /\ pending = <<>>
  /\ job_records = <<>>
  /\ lock = Idle
  /\ running = Idle
  /\ pc = [t \in FrameTasks |-> IF t[1] = "job" THEN "none" ELSE "idle"]
  /\ bc = [t \in FrameTasks |-> NoBc]
  /\ arg = [c \in FrameClients |-> NoArg]
  /\ cancel_event = [j \in JobIds |-> FALSE]
  /\ child = [j \in JobIds |-> "none"]
  /\ silent = [j \in JobIds |-> FALSE]
  /\ infos = [j \in JobIds |-> 0]
  /\ now = 0
  /\ budget = b
  /\ emitted = [j \in JobIds |-> {}]
  /\ termCount = [j \in JobIds |-> 0]
  /\ cancelQueued = [j \in JobIds |-> FALSE]
  /\ cancelReq = [j \in JobIds |-> FALSE]
  /\ resubmitted = {}
  /\ bm = [j \in JobIds |-> NoBm]
  /\ unguarded = {"clients.add", "clients.iterate"}
  /\ owed = [t \in FrameTasks |-> FALSE]
  /\ probe = p
  /\ inbox = [c \in FrameClients |-> <<>>]
  /\ upd = [j \in JobIds |-> 0]
  /\ lastBc = NoLast
  /\ log = [j \in JobIds |-> NoLog]
  /\ logcap = [j \in JobIds |-> LOG_MAXLEN]
  /\ store_jobs = <<>>
  /\ store_logs = [j \in JobIds |-> NoLog]
  /\ store_ok = "ok"
  /\ tailReq = [c \in DOMAIN arg |-> NoTail]
  /\ lastOp = NoOp
  /\ aborted = {}
  /\ stops = [j \in JobIds |-> 0]
  /\ reply = NoReply
  /\ storeFailed = FALSE

FrameNext ==
  \/ \E c \in FrameClients : Disconnect(c)
  \/ \E c \in FrameClients : Closed(c)
  \/ \E t \in FrameTasks : DrainDone(t)
  \/ JobsList(Operator)
  \/ SendOneDone(Operator)
  \/ \E j \in JobIds : Submit(Operator, j)
  \/ SubQueued(Operator)
  \/ SubStatus(Operator)
  \/ SubStore(Operator)
  \/ \E t \in FrameTasks : TryStartNext(t)
  \/ \E j \in JobIds : Cancel(Operator, j)
  \/ CanUpdate(Operator)
  \/ CanStatus(Operator)
  \/ \E j \in JobIds : RjStart(j)
  \/ \E j \in JobIds : RunSpawn(j)
  \/ \E j \in JobIds, r \in {"ok", "eof", "write_fail"} : ReadInit(j, r)
  \/ \E j \in JobIds : StreamTop(j)
  \/ \E j \in JobIds : ReadInfo(j)
  \/ \E j \in JobIds : ReadBestmove(j)
  \/ \E j \in JobIds, r \in {"blank", "eof"} : ReadOther(j, r)
  \/ \E j \in JobIds : RunExcept(j)
  \/ \E j \in JobIds : RunFinally(j)
  \/ \E j \in JobIds : Reaped(j)
  \/ \E j \in JobIds : RjFinally(j)

FrameInit == FrameStart("frames", MaxEvents - 1)

FrameSpec == FrameInit /\ [][FrameNext]_vars

\* the same server with nothing recorded and one more external event
PairInit == FrameStart("none", MaxEvents)

PairSpec == PairInit /\ [][FrameNext]_vars

\* ---- the server with a store ------------------------------------------------
\* the statuses mark_incomplete_as_error selects
Incomplete == {JOB_PENDING, JOB_QUEUED, JOB_RUNNING}

\* the log line __init__ appends for every job mark_incomplete_as_error
\* returned
RestartLine == "[server] restart: job aborted"

\* the jobs table row a previous process left for a job: its status and the
\* number of its log lines; timestamps of that process are 0
OldRow(status) ==
  [status |-> status, created_at_ms |-> 0,
   started_at_ms |-> IF status \in {JOB_PENDING, JOB_QUEUED} THEN NoTime ELSE 0,
   finished_at_ms |-> IF status \in Terminal THEN 0 ELSE NoTime,
   last_update_ms |-> 0,
   bestmove |-> IF status \in {JOB_FINISHED, JOB_CANCELLED} THEN "move" ELSE ""]

\* what the store may hold for a job when the server starts
OldJobs ==
  {[status |-> JOB_QUEUED, lines |-> 1],
   [status |-> JOB_RUNNING, lines |-> LOG_MAXLEN + 1],
   [status |-> JOB_FINISHED, lines |-> LOG_MAXLEN]}

\* log_tail values of job_get requests: absent or 0, and values around the
\* default
StoreTailInputs == {0 - 1, 0, 1, LOG_MAXLEN + 1}

\* JobStore.mark_incomplete_as_error(now_ms): UPDATE jobs SET status = ERROR,
\* finished_at_ms = COALESCE(finished_at_ms, now), last_update_ms = now
\* WHERE status IN (PENDING, QUEUED, RUNNING)
MarkIncompleteAsError(rows, ts) ==
  [k \in DOMAIN rows |->
     IF rows[k].status \in Incomplete
     THEN [rows[k] EXCEPT !.status = JOB_ERROR,
                          !.finished_at_ms = IF @ = NoTime THEN ts ELSE @,
                          !.last_update_ms = ts]
     ELSE rows[k]]

\* _row_to_record for the columns the model keeps
RowToRecord(row) ==
  [status |-> row.status, created_at_ms |-> row.created_at_ms,
   started_at_ms |-> row.started_at_ms,
   finished_at_ms |-> row.finished_at_ms,
   last_update_ms |-> row.last_update_ms, bestmove |-> row.bestmove]

\* before __init__ has run: the store file of a previous process holds a row
\* and log lines for job 1 or is empty; another process may hold its write
\* lock
StoreInit ==
  /\ max_jobs = MaxSlots
  /\ store_on = TRUE
  /\ clients = {}
  /\ active_jobs = {}
  /\ pending = <<>>
  /\ job_records = <<>>
  /\ lock = Idle
  /\ running = Boot
  /\ pc = [t \in Tasks |-> IF t[1] = "job" THEN "none" ELSE "off"]
  /\ bc = [t \in Tasks |-> NoBc]
  /\ arg = [c \in ClientIds |-> NoArg]
  /\ cancel_event = [j \in JobIds |-> FALSE]
  /\ child = [j \in JobIds |-> "none"]
  /\ silent = [j \in JobIds |-> FALSE]
  /\ infos = [j \in JobIds |-> 0]
  /\ now = MaxClock
  /\ budget = MaxEvents - 1
  /\ emitted = [j \in JobIds |-> {}]
  /\ termCount = [j \in JobIds |-> 0]
  /\ cancelQueued = [j \in JobIds |-> FALSE]
  /\ cancelReq = [j \in JobIds |-> FALSE]
  /\ resubmitted = {}
  /\ bm = [j \in JobIds |-> NoBm]
  /\ unguarded = {}
  /\ owed = [t \in Tasks |-> FALSE]
  /\ probe = "store"
  /\ inbox = [c \in ClientIds |-> <<>>]
  /\ upd = [j \in JobIds |-> 0]
  /\ lastBc = NoLast
  /\ log = [j \in JobIds |-> NoLog]
  /\ logcap = [j \in JobIds |-> LOG_MAXLEN]
  /\ \/ /\ store_jobs = <<>>
        /\ store_logs = [j \in JobIds |-> NoLog]
     \/ \E o \in OldJobs :
          /\ store_jobs = UpsertJob(<<>>, 1, OldRow(o.status))
          /\ store_logs = [j \in JobIds |->
                             IF j = 1 THEN [old |-> o.lines, new |-> <<>>]
                             ELSE NoLog]
  /\ store_ok \in {"ok", "readonly"}
  /\ tailReq = [c \in ClientIds |-> NoTail]
  /\ lastOp = NoOp
  /\ aborted = {j \in DOMAIN store_jobs : store_jobs[j].status \in Incomplete}
  /\ stops = [j \in JobIds |-> 0]
  /\ reply = NoReply
  /\ storeFailed = FALSE

\* ClusterServer.__init__ with db_path: mark_incomplete_as_error and the
\* restart log lines in one try block, load_recent_into_memory and the log
\* tails in another; both pass over an exception of the store
Startup ==
  LET marked == store_ok = "ok"
      rows == IF marked THEN MarkIncompleteAsError(store_jobs, now) ELSE store_jobs
      affected == {j \in DOMAIN store_jobs : store_jobs[j].status \in Incomplete}
      slogs == IF marked
               THEN [j \in JobIds |->
                       IF j \in affected
                       THEN StoreAppendLog(store_logs[j], RestartLine)
                       ELSE store_logs[j]]
               ELSE store_logs
      loaded == store_ok # "down"
  IN /\ running = Boot
     /\ running' = Idle
     /\ store_jobs' = rows
     /\ store_logs' = slogs
     /\ job_records' = IF loaded
                        THEN [j \in DOMAIN rows |-> RowToRecord(rows[j])]
                        ELSE job_records
     /\ log' = IF loaded
               THEN [j \in JobIds |->
                       IF j \in DOMAIN rows
                       THEN Deque(FetchLogTail(slogs, j, LOG_MAXLEN), LOG_MAXLEN)
                       ELSE log[j]]
               ELSE log
     /\ UNCHANGED <<max_jobs, store_on, clients, active_jobs, pending, lock,
                    pc, bc, arg, cancel_event, child, silent, infos, now,
                    budget, emitted, termCount, cancelQueued, cancelReq,
                    resubmitted, bm>>
     /\ UNCHANGED <<unguarded, owed, probe, frameVars>>
     /\ UNCHANGED <<logcap, store_ok, tailReq, lastOp, aborted>>
     /\ storeFailed' = ~marked
     /\ UNCHANGED <<stops, reply>>

\* the store starts to fail: its file can no longer be written (locked by
\* another process, disk full) or no longer be opened
StoreFault(f) ==
  /\ Event
  /\ store_ok = "ok"
  /\ store_ok' = f
  /\ UNCHANGED <<max_jobs, store_on, clients, active_jobs, pending,
                 job_records, lock, running, pc, bc, arg, cancel_event, child,
                 silent, infos, now, emitted, termCount, cancelQueued,
                 cancelReq, resubmitted, bm>>
  /\ UNCHANGED <<unguarded, owed, probe, frameVars>>
  /\ UNCHANGED <<log, logcap, store_jobs, store_logs, tailReq, lastOp, aborted>>
  /\ UNCHANGED auxVars

\* the store works again
StoreRecover ==
  /\ Event
  /\ store_ok # "ok"
  /\ store_ok' = "ok"
  /\ UNCHANGED <<max_jobs, store_on, clients, active_jobs, pending,
                 job_records, lock, running, pc, bc, arg, cancel_event, child,
                 silent, infos, now, emitted, termCount, cancelQueued,
                 cancelReq, resubmitted, bm>>
  /\ UNCHANGED <<unguarded, owed, probe, frameVars>>
  /\ UNCHANGED <<log, logcap, store_jobs, store_logs, tailReq, lastOp, aborted>>
  /\ UNCHANGED auxVars

StoreNext ==
  \/ Startup
  \/ \E f \in {"readonly", "down"} : StoreFault(f)
  \/ StoreRecover
  \/ \E c \in ClientIds : Connect(c)
  \/ \E t \in Tasks : DrainDone(t)
  \/ \E c \in ClientIds : SendOneDone(c)
  \/ \E c \in ClientIds, j \in JobIds, n \in StoreTailInputs : JobGet(c, j, n)
  \/ \E c \in ClientIds : JgFetch(c)
  \/ \E c \in ClientIds : JgReply(c)
  \/ \E c \in ClientIds, j \in JobIds : Submit(c, j)
  \/ \E c \in ClientIds : SubQueued(c)
  \/ \E c \in ClientIds : SubStatus(c)
  \/ \E c \in ClientIds : SubStore(c)
  \/ \E t \in Tasks : TryStartNext(t)
  \/ \E j \in JobIds : RjStart(j)
  \/ \E j \in JobIds : RunSpawn(j)
  \/ \E j \in JobIds, r \in {"ok", "eof", "write_fail"} : ReadInit(j, r)
  \/ \E j \in JobIds : StreamTop(j)
  \/ \E j \in JobIds : ReadInfo(j)
  \/ \E j \in JobIds : ReadBestmove(j)
  \/ \E j \in JobIds, r \in {"blank", "eof"} : ReadOther(j, r)
  \/ \E j \in JobIds : RunExcept(j)
  \/ \E j \in JobIds : RunFinally(j)
  \/ \E j \in JobIds : Reaped(j)
  \/ \E j \in JobIds : RjFinally(j)

StoreSpec == StoreInit /\ [][StoreNext]_vars

\* ---- properties -----------------------------------------------------------
\* the classification of the bestmove the claim states
FinalStatusSpec(cancelRequested) ==
  IF cancelRequested THEN JOB_CANCELLED ELSE JOB_FINISHED

Status(j) == job_records[j].status

\* run() of the driver of job j has returned to _run_job
RunReturned(j) ==
  \/ pc[JT(j)] \in {"rj_finally", "tsn", "done"}
  \/ pc[JT(j)] = "drain" /\ bc[JT(j)].cont = "tsn"

\* C1: when max_jobs > 0, the number of entries of the active map never
\* exceeds max_jobs
C1_ActiveAtMostMaxJobs ==
  max_jobs > 0 => Cardinality(active_jobs) <= max_jobs

C1_Witness ==
  /\ max_jobs > 0
  /\ Cardinality(active_jobs) = max_jobs
  /\ pending # <<>>

\* C2: a submission whose job id already has a record changes neither the
\* record set, the active map nor the pending queue, starts no driver and
\* emits no job_update
C2_ResubmitNoOp ==
  [][\A c \in ClientIds, j \in JobIds :
       (Known(j) /\ Submit(c, j)) =>
         UNCHANGED <<job_records, active_jobs, pending, pc, bc, emitted,
                     termCount, cancel_event, child, clients>>]_vars

C2_Witness ==
  \E x \in resubmitted : x[2] \in Terminal /\ Status(x[1]) = x[2]

\* C3: every change of a record's status is an edge of the state machine of
\* section 4.5; no edge leaves a terminal status, so at most one change
\* enters a terminal status
C3_Edges ==
  {<<JOB_PENDING, JOB_QUEUED>>, <<JOB_QUEUED, JOB_RUNNING>>,
   <<JOB_RUNNING, JOB_FINISHED>>, <<JOB_RUNNING, JOB_ERROR>>,
   <<JOB_RUNNING, JOB_CANCELLED>>, <<JOB_RUNNING, JOB_STOPPED>>,
   <<JOB_PENDING, JOB_CANCELLED>>}

C3_StatusPath ==
  [][\A j \in JobIds :
       (Known(j) /\ job_records'[j].status # Status(j)) =>
         <<Status(j), job_records'[j].status>> \in C3_Edges]_vars

\* C4: once the status of a record is terminal, its status, started_at and
\* finished_at never change
C4_TerminalFrozen ==
  [][\A j \in JobIds :
       (Known(j) /\ Status(j) \in Terminal) =>
         /\ job_records'[j].status = Status(j)
         /\ job_records'[j].started_at_ms = job_records[j].started_at_ms
         /\ job_records'[j].finished_at_ms = job_records[j].finished_at_ms]_vars

\* C5: at most one terminal job_update is ever emitted for a job, and
\* exactly one has been emitted once the driver's run() has returned
C5_OneTerminalUpdate ==
  \A j \in JobIds :
    /\ termCount[j] <= 1
    /\ RunReturned(j) => termCount[j] = 1

\* C6: a job that cancel_job removed from the pending queue is not in
\* pending and not in active, no driver task exists for it, no RUNNING update
\* is emitted for it, and once cancel_job has applied its update the record
\* is CANCELLED, the update carrying the log line "cancelled (queued)"
C6_CancelQueued ==
  \A j \in JobIds :
    cancelQueued[j] =>
      /\ ~InPending(j)
      /\ j \notin active_jobs
      /\ pc[JT(j)] = "none"
      /\ \A u \in emitted[j] : u[1] # JOB_RUNNING
      /\ (\A c \in ClientIds : ~(pc[CT(c)] = "can_update" /\ arg[c] = j)) =>
           /\ Status(j) = JOB_CANCELLED
           /\ <<JOB_CANCELLED, "cancelled (queued)">> \in emitted[j]

C6_Witness ==
  \E j, k \in JobIds :
    /\ cancelQueued[j]
    /\ Status(j) = JOB_CANCELLED
    /\ k # j
    /\ pc[JT(k)] = "done"

\* C7: the update the driver emits at bestmove is CANCELLED when cancel was
\* requested before the bestmove line was read and FINISHED otherwise, and
\* a cancel request, once set, is never cleared
C7_CancelClassifiesBestmove ==
  /\ [](\A j \in JobIds :
          bm[j].read =>
            /\ <<FinalStatusSpec(bm[j].cancel), "bestmove">> \in emitted[j]
            /\ <<FinalStatusSpec(~bm[j].cancel), "bestmove">> \notin emitted[j])
  /\ [][\A j \in JobIds : cancel_event[j] => cancel_event'[j]]_vars

C7_Witness ==
  \E j \in JobIds : bm[j].read /\ bm[j].cancel /\ Status(j) = JOB_CANCELLED

\* C8: when cancel was requested for an active job whose child produces no
\* further output, the job eventually leaves the active map with a terminal
\* record
C8_CancelReleasesSlot ==
  \A j \in JobIds :
    (cancel_event[j] /\ silent[j] /\ j \in active_jobs)
      ~> (j \notin active_jobs /\ Known(j) /\ Status(j) \in Terminal)

\* whatever else happens (more frames, more clients, clock ticks), a driver
\* waiting in readline() for a child that has gone silent never moves: its
\* job stays active and its child stays alive
SilentDriverBlocked ==
  [][\A j \in JobIds :
       (silent[j] /\ pc[JT(j)] \in ReadLabels /\ j \in active_jobs) =>
         /\ silent'[j]
         /\ pc'[JT(j)] = pc[JT(j)]
         /\ j \in active_jobs'
         /\ child'[j] = "alive"]_vars

\* C9: once run() has returned, the child it spawned has been waited for
C9_ChildReaped ==
  \A j \in JobIds : RunReturned(j) => child[j] \in {"none", "reaped"}

C9_Witness ==
  \E j \in JobIds : RunReturned(j) /\ child[j] = "reaped" /\ cancel_event[j]

\* positions at which a task is writing to a client, doing I/O on a child
\* process, or calling the record store
ClientIO == {"drain", "so_drain"}
ChildIO == {"run_spawn", "rd_init", "rd_stream", "run_wait"}
StoreCall == {"jg_fetch", "sub_store_q", "sub_store_nq"}

\* C10: the lock is never held by a task that is writing to a client, doing
\* I/O on a child process or calling the record store
C10_NoIOUnderLock ==
  lock # Idle => pc[lock] \notin (ClientIO \cup ChildIO \cup StoreCall)

\* C11: every access to the record set, the active map, the pending queue
\* and the client set is made with the lock held: no access without the
\* lock has happened
C11_SharedStateUnderLock == unguarded = {}

\* C13: started_at is set exactly when a RUNNING update has been applied,
\* finished_at is set exactly when the status is terminal, and neither
\* changes once it is set
C13_Timestamps ==
  /\ [](\A j \in JobIds :
          Known(j) =>
            /\ job_records[j].started_at_ms # NoTime
                 <=> (\E u \in emitted[j] : u[1] = JOB_RUNNING)
            /\ job_records[j].finished_at_ms # NoTime
                 <=> Status(j) \in Terminal)
  /\ [][\A j \in JobIds :
          Known(j) =>
            /\ job_records[j].started_at_ms # NoTime =>
                 job_records'[j].started_at_ms = job_records[j].started_at_ms
            /\ job_records[j].finished_at_ms # NoTime =>
                 job_records'[j].finished_at_ms = job_records[j].finished_at_ms]_vars

\* a record that received a second terminal update at a later time and kept
\* its first finished_at
C13_Witness ==
  \E j \in JobIds :
    /\ Known(j)
    /\ termCount[j] = 2
    /\ job_records[j].started_at_ms # NoTime
    /\ job_records[j].finished_at_ms < job_records[j].last_update_ms

\* C20: last_update is never before created_at and never decreases
C20_LastUpdateMonotone ==
  /\ [](\A j \in JobIds :
          Known(j) => job_records[j].last_update_ms >= job_records[j].created_at_ms)
  /\ [][\A j \in JobIds :
          Known(j) =>
            job_records'[j].last_update_ms >= job_records[j].last_update_ms]_vars

C20_Witness ==
  \E j \in JobIds :
    /\ Known(j)
    /\ job_records[j].last_update_ms > job_records[j].created_at_ms
    /\ Status(j) \in Terminal

\* C12: on every connection the job_update frames of a job arrive in the
\* order in which the updates were applied to the record, and none arrives
\* after the job's terminal frame
C12_FrameOrder ==
  \A c \in DOMAIN inbox :
    \A i, k \in 1..Len(inbox[c]) :
      (i < k /\ inbox[c][i].job = inbox[c][k].job) =>
        /\ inbox[c][i].seq < inbox[c][k].seq
        /\ inbox[c][i].status \notin Terminal

\* C17: when a write failed during a broadcast or a _send_one, the client
\* whose write failed does not stay in the client set, the frame was written
\* to every client that was connected and stays connected, and only clients
\* whose write failed were removed
C17_WriteFailureIsolated ==
  /\ lastBc.failed # {} =>
       /\ lastBc.failed \cap lastBc.kept = {}
       /\ (lastBc.targets \cap lastBc.kept) \subseteq lastBc.written
  /\ lastBc.removed \subseteq lastBc.failed

\* positions at which a task has left, or not entered, the operation it was
\* carrying out
AtRest == {"none", "off", "idle", "crashed", "dead", "done", "hc_closing"}

\* C19: a task that changed the active map or cancelled a queued job
\* computes a server_status frame before it leaves the operation; every
\* server_status frame carries the size of the active map at the moment it
\* was computed, and status DEGRADED exactly when max_jobs > 0 and
\* running_jobs >= max_jobs, otherwise ONLINE
C19_StatusAfterChange ==
  /\ [](\A t \in DOMAIN pc : owed[t] => pc[t] \notin AtRest)
  /\ [](\A t \in DOMAIN bc :
          bc[t].frame.kind = "status" =>
            bc[t].frame.status =
              (IF max_jobs > 0 /\ bc[t].frame.running >= max_jobs
               THEN SERVER_DEGRADED ELSE SERVER_ONLINE))
  /\ [][\A t \in DOMAIN bc :
          (bc'[t] # bc[t] /\ bc'[t].frame.kind = "status") =>
            bc'[t].frame.running = Cardinality(active_jobs')]_vars

\* the newest line of a log
LastLine(lg) == IF lg.new = <<>> THEN "" ELSE lg.new[Len(lg.new)]

\* C14: the in-memory log of every record holds at most 2000 lines, after
\* startup rehydration, job updates and job_get with any allowed log_tail
C14_LogBounded ==
  \A j \in DOMAIN job_records : LogLen(log[j]) <= LOG_MAXLEN

\* C15: once the server has started with a store, every job the store held as
\* PENDING, QUEUED or RUNNING is ERROR in the store with finished_at set and
\* last_update = the time of the start, has the restart log line, has no
\* rehydrated record with a non-terminal status, and has no driver task
C15_RestartAbort ==
  running # Boot =>
    \A j \in aborted :
      /\ j \in DOMAIN store_jobs
      /\ store_jobs[j].status = JOB_ERROR
      /\ store_jobs[j].finished_at_ms # NoTime
      /\ store_jobs[j].last_update_ms = now
      /\ LastLine(store_logs[j]) = RestartLine
      /\ Known(j) => Status(j) \in Terminal
      /\ pc[JT(j)] = "none"

\* C16: in every send_job_update with a non-empty log_line, the line is the
\* newest line of the job's in-memory log when the frame is handed to
\* _broadcast, and, when a store is configured and its calls do not raise,
\* the newest line of the job's log in the store
C16_LogLineRecorded ==
  [][(lastOp'.flip # lastOp.flip /\ lastOp'.op = "update" /\ lastOp'.line # "")
       => /\ LastLine(log'[lastOp'.job]) = lastOp'.line
          /\ clients # {} =>
               /\ pc'[lastOp'.task] = "drain"
               /\ bc'[lastOp'.task].frame.line = lastOp'.line
          /\ (store_on /\ store_ok = "ok") =>
               LastLine(store_logs'[lastOp'.job]) = lastOp'.line]_vars

C16_Witness ==
  /\ lastOp.op = "update"
  /\ lastOp.stored = "ok"
  /\ lastOp.status = JOB_FINISHED
  /\ pc[lastOp.task] = "drain"
  /\ bc[lastOp.task].frame.line = "bestmove"
  /\ LastLine(store_logs[lastOp.job]) = "bestmove"
  /\ Len(log[lastOp.job].new) >= 3

\* C18: when the store calls of send_job_update or of submit_job raise, the
\* record keeps the mutation, the job_update frame is handed to _broadcast,
\* the active map and the pending queue are what they were, and the task goes
\* on at the statement after the store calls
C18_StoreFailureTolerated ==
  [][(lastOp'.flip # lastOp.flip /\ lastOp'.stored = "failed")
       => /\ lastOp'.op = "update" =>
               /\ job_records'[lastOp'.job].status = lastOp'.status
               /\ job_records'[lastOp'.job].last_update_ms = now
               /\ LastLine(log'[lastOp'.job]) = lastOp'.line
               /\ pc'[lastOp'.task] \notin {"hc_closing", "dead", "run_except"}
               /\ clients # {} =>
                    /\ pc'[lastOp'.task] = "drain"
                    /\ bc'[lastOp'.task].frame =
                         JobFrame(lastOp'.job, lastOp'.status, lastOp'.line)
          /\ lastOp'.op = "submit" =>
               /\ pc'[lastOp'.task] \in {"tsn", "idle"}
               /\ job_records' = job_records
          /\ active_jobs' = active_jobs
          /\ pending' = pending]_vars

C18_Witness ==
  /\ lastOp.op = "update"
  /\ lastOp.stored = "failed"
  /\ lastOp.status = JOB_FINISHED
  /\ pc[lastOp.task] = "drain"
  /\ lastOp.job \notin DOMAIN store_jobs
  /\ Status(lastOp.job) = JOB_FINISHED

\* C22: every job id in the active map has a task that will remove it: its
\* _run_job task has not ended
C22_ActiveHasTask ==
  \A j \in active_jobs : pc[JT(j)] \notin {"none", "dead", "done"}

\* C23: no state in which a job waits in the pending queue, a slot is free
\* and no task is left that will call _try_start_next
C23_PendingServed ==
  ~(/\ pending # <<>>
    /\ ~NoFreeSlot(Cardinality(active_jobs))
    /\ \A t \in DOMAIN pc : pc[t] \in AtRest)

\* C24: a task suspended in _broadcast goes on at the statement after the
\* call, whatever happens to the client set meanwhile
C24_BroadcastNotAborted ==
  [][\A t \in DOMAIN pc :
       (pc[t] = "drain" /\ pc'[t] # "drain") => pc'[t] = bc[t].cont]_vars

\* C27: a driver task is created for a job id only when none was created
\* before; the active map and the pending queue are disjoint, the queue holds
\* no job id twice, and every job id in either has a record
C27_SchedulerWellFormed ==
  /\ [](\A i \in 1..Len(pending) :
          /\ pending[i] \notin active_jobs
          /\ \A k \in 1..Len(pending) : pending[i] = pending[k] => i = k
          /\ Known(pending[i]))
  /\ [](\A j \in active_jobs : Known(j))
  /\ [][\A j \in DOMAIN cancel_event :
          (pc'[JT(j)] = "rj_start" /\ pc[JT(j)] # "rj_start")
            => pc[JT(j)] = "none"]_vars

C27_Witness ==
  /\ pending # <<>>
  /\ active_jobs # {}
  /\ resubmitted # {}

\* ---- one more job than the queue of the other specifications needs ----------
OrderJobs == 1..(NumJobs + 1)
OrderTasks == {JT(j) : j \in OrderJobs} \cup {CT(c) : c \in ClientIds}

\* the state after the clients have connected and received server_status
OrderInit ==
  /\ max_jobs \in 1..MaxSlots
  /\ store_on = FALSE
  /\ clients = ClientIds
  /\ active_jobs = {}
  /\ pending = <<>>
  /\ job_records = <<>>
  /\ lock = Idle
  /\ running = Idle
  /\ pc = [t \in OrderTasks |-> IF t[1] = "job" THEN "none" ELSE "idle"]
  /\ bc = [t \in OrderTasks |-> NoBc]
  /\ arg = [c \in ClientIds |-> NoArg]
  /\ cancel_event = [j \in OrderJobs |-> FALSE]
  /\ child = [j \in OrderJobs |-> "none"]
  /\ silent = [j \in OrderJobs |-> FALSE]
  /\ infos = [j \in OrderJobs |-> 0]
  /\ now = 0
  /\ budget = MaxEvents - 1
  /\ emitted = [j \in OrderJobs |-> {}]
  /\ termCount = [j \in OrderJobs |-> 0]
  /\ cancelQueued = [j \in OrderJobs |-> FALSE]
  /\ cancelReq = [j \in OrderJobs |-> FALSE]
  /\ resubmitted = {}
  /\ bm = [j \in OrderJobs |-> NoBm]
  /\ unguarded = {"clients.add", "clients.iterate"}
  /\ owed = [t \in OrderTasks |-> FALSE]
  /\ probe = "none"
  /\ inbox = [c \in ClientIds |-> <<>>]
  /\ upd = [j \in OrderJobs |-> 0]
  /\ lastBc = NoLast
  /\ log = [j \in OrderJobs |-> NoLog]
  /\ logcap = [j \in OrderJobs |-> LOG_MAXLEN]
  /\ store_jobs = <<>>
  /\ store_logs = [j \in OrderJobs |-> NoLog]
  /\ store_ok = "ok"
  /\ tailReq = [c \in DOMAIN arg |-> NoTail]
  /\ lastOp = NoOp
  /\ aborted = {}
  /\ stops = [j \in OrderJobs |-> 0]
  /\ reply = NoReply
  /\ storeFailed = FALSE

OrderNext ==
  \/ \E t \in OrderTasks : DrainDone(t)
  \/ \E c \in ClientIds, j \in OrderJobs : Submit(c, j)
  \/ \E c \in ClientIds : SubQueued(c)
  \/ \E c \in ClientIds : SubStatus(c)
  \/ \E c \in ClientIds : SubStore(c)
  \/ \E t \in OrderTasks : TryStartNext(t)
  \/ \E c \in ClientIds, j \in OrderJobs : Cancel(c, j)
  \/ \E c \in ClientIds : CanUpdate(c)
  \/ \E c \in ClientIds : CanStatus(c)
  \/ \E j \in OrderJobs : RjStart(j)
  \/ \E j \in OrderJobs : RunSpawn(j)
  \/ \E j \in OrderJobs, r \in {"ok", "eof", "write_fail"} : ReadInit(j, r)
  \/ \E j \in OrderJobs : StreamTop(j)
  \/ \E j \in OrderJobs : ReadInfo(j)
  \/ \E j \in OrderJobs : ReadBestmove(j)
  \/ \E j \in OrderJobs, r \in {"blank", "eof"} : ReadOther(j, r)
  \/ \E j \in OrderJobs : RunExcept(j)
  \/ \E j \in OrderJobs : RunFinally(j)
  \/ \E j \in OrderJobs : Reaped(j)
  \/ \E j \in OrderJobs : RjFinally(j)

OrderSpec == OrderInit /\ [][OrderNext]_vars

\* C21: jobs are started in submission order: no job is moved into active,
\* by submit_job or by _try_start_next, while a job submitted earlier and not
\* cancelled is still waiting in pending, under any interleaving of a driver
\* completion with a new submission.
C21_SubmissionOrder ==
  [][\A k \in active_jobs' \ active_jobs :
       pending = <<>> \/ k = Head(pending)]_vars

\* C25: during one driver run 'stop' is sent to the child at most once,
\* however many engine lines are read after cancel was requested, and it is
\* never sent when cancel was never requested.
C25_StopOnce ==
  \A j \in DOMAIN stops :
    /\ stops[j] <= 1
    /\ stops[j] > 0 => cancelReq[j]

\* a value clamped into [lo, hi]
Clamp(v, lo, hi) == Max(lo, Min(v, hi))

\* C26: for a job_get request with any integer log_tail, the value n used is
\* the request value clamped into [0, 20000], and the log_tail array of the
\* job_state reply holds exactly the last min(n, length) lines of the
\* record's log; it is empty when n = 0.
C26_LogTailReply ==
  [][reply'.flip # reply.flip =>
       /\ reply'.n = Clamp(reply'.req, 0, MAX_LOG_TAIL)
       /\ reply'.lines = LastLines(log'[reply'.job], Min(reply'.n, LogLen(log'[reply'.job])))
       /\ reply'.n = 0 => LogLen(reply'.lines) = 0]_vars

\* ---- two clients and a store ---------------------------------------------
\* the server started with an empty store, after the clients have connected;
\* the rows and the logs are recorded
SyncInit ==
  /\ max_jobs \in 1..MaxSlots
  /\ store_on = TRUE
  /\ clients = FrameClients
  /\ active_jobs = {}
  /\ pending = <<>>
  /\ job_records = <<>>
  /\ lock = Idle
  /\ running = Idle
  /\ pc = [t \in FrameTasks |-> IF t[1] = "job" THEN "none" ELSE "idle"]
  /\ bc = [t \in FrameTasks |-> NoBc]
  /\ arg = [c \in FrameClients |-> NoArg]
  /\ cancel_event = [j \in JobIds |-> FALSE]
  /\ child = [j \in JobIds |-> "none"]
  /\ silent = [j \in JobIds |-> FALSE]
  /\ infos = [j \in JobIds |-> 0]
  /\ now = 0
  /\ budget = MaxEvents - 1
  /\ emitted = [j \in JobIds |-> {}]
  /\ termCount = [j \in JobIds |-> 0]
  /\ cancelQueued = [j \in JobIds |-> FALSE]
  /\ cancelReq = [j \in JobIds |-> FALSE]
  /\ resubmitted = {}
  /\ bm = [j \in JobIds |-> NoBm]
  /\ unguarded = {"clients.add", "clients.iterate"}
  /\ owed = [t \in FrameTasks |-> FALSE]
  /\ probe = "store"
  /\ inbox = [c \in FrameClients |-> <<>>]
  /\ upd = [j \in JobIds |-> 0]
  /\ lastBc = NoLast
  /\ log = [j \in JobIds |-> NoLog]
  /\ logcap = [j \in JobIds |-> LOG_MAXLEN]
  /\ store_jobs = <<>>
  /\ store_logs = [j \in JobIds |-> NoLog]
  /\ store_ok = "ok"
  /\ tailReq = [c \in DOMAIN arg |-> NoTail]
  /\ lastOp = NoOp
  /\ aborted = {}
  /\ stops = [j \in JobIds |-> 0]
  /\ reply = NoReply
  /\ storeFailed = FALSE

SyncSpec == SyncInit /\ [][FrameNext]_vars

\* submit_job between the creation of the record and its own store write
SubmitWindow ==
  {"sub_queued", "sub_status_q", "sub_status_nq", "sub_store_q", "sub_store_nq"}

\* no task is between a record mutation and its store write
Quiescent ==
  \A t \in DOMAIN pc :
    /\ pc[t] \notin SubmitWindow
    /\ pc[t] = "drain" => bc[t].cont \notin SubmitWindow

\* the store row of job j holds the state of the in-memory record
RowMatches(j) ==
  /\ j \in DOMAIN store_jobs
  /\ store_jobs[j].status = job_records[j].status
  /\ store_jobs[j].started_at_ms = job_records[j].started_at_ms
  /\ store_jobs[j].finished_at_ms = job_records[j].finished_at_ms
  /\ store_jobs[j].last_update_ms = job_records[j].last_update_ms
  /\ store_jobs[j].bestmove = job_records[j].bestmove

\* C28: with a store and no store failure, whenever no task is between a
\* record mutation and its store write, the store row of every job of the
\* session has the same status, started_at, finished_at, last_update and
\* bestmove as the in-memory record; the late upsert of submit_job never
\* leaves the store with an older state than memory.
C28_StoreMatchesMemory ==
  (store_on /\ ~storeFailed /\ Quiescent) =>
    \A j \in DOMAIN job_records : RowMatches(j)

C28_Witness ==
  /\ store_on /\ ~storeFailed /\ Quiescent
  /\ lastOp.op = "submit"
  /\ lastOp.job \in DOMAIN job_records
  /\ job_records[lastOp.job].status = JOB_RUNNING
  /\ RowMatches(lastOp.job)

====
